---- MODULE Spec2Model ----
(***************************************************************************)
(* A model of obmc-console's socket handler (socket-handler.c): the        *)
(* connection set of one listening socket, the per-client drain of the     *)
(* shared ring buffer with its blocked flag, and the escape parser that    *)
(* scans the bytes received from clients.                                  *)
(*                                                                         *)
(* The dispatcher (console_poller_register and the like) and the ring      *)
(* buffer (ringbuffer_dequeue_peek and the like)                           *)
(* live in other files of the repository; they are modelled here by what   *)
(* the handler asks of them.                                               *)
(***************************************************************************)
EXTENDS Integers, Sequences, FiniteSets, TLC

(***************************************************************************)
(* Bounds of the model.                                                    *)
(***************************************************************************)
\* client structures ever allocated (by accept or by attach)
MaxClients == 2
\* ringbuffer_queue calls
MaxQueues == 2
\* scripted results of send() in a behaviour; the sends after a script
\* transfer all they are given
MaxScript == 2
\* bytes received from clients in SpecEsc
MaxInput == 5
\* successful recv calls in Spec
MaxReads == 1
\* calls in a behaviour of Spec
MaxCalls == 7
\* bytes received from two clients in SpecShare
MaxShared == 4
\* width of size_t and ssize_t in bits (64 on the target; the wrap-around of
\* an unsigned position is the same at any width that holds the lengths)
SizeBits == 12
\* bytes the ring buffer holds (set in console-server.c)
RingSize == 516

(***************************************************************************)
(* Program constants.                                                      *)
(***************************************************************************)
SOCKET_HANDLER_PKT_SIZE == 512

SIZE_MOD == 2 ^ SizeBits
SIZE_MAX == SIZE_MOD - 1
SSIZE_MAX == (SIZE_MOD \div 2) - 1

\* (ssize_t)x for a size_t x
ToSsize(x) == IF x > SSIZE_MAX THEN x - SIZE_MOD ELSE x
\* (size_t)x for an ssize_t x, and unsigned arithmetic
ToSize(x) == x % SIZE_MOD

Min(S) == CHOOSE x \in S : \A y \in S : x <= y

ClientIds == 1..MaxClients

(***************************************************************************)
(* Bytes received from a client, and what reaches the tty.                 *)
(***************************************************************************)
CR == "CR"
LF == "LF"
TILDE == "~"
CharB == "B"
CharX == "x"
Bytes == {CR, LF, TILDE, CharB, CharX}
\* tcsendbreak() on the tty, recorded in line with the bytes written to it
BREAK == "<break>"

\* memchr(begin, ch, end - begin): the first index holding ch, 0 for NULL
memchr(buf, begin, ch) ==
  LET hits == {i \in begin..Len(buf) : buf[i] = ch}
  IN IF hits = {} THEN 0 ELSE Min(hits)

\* console_data_out(console, data, len): len bytes of data from index begin
console_data_out(sink, data, begin, len) ==
  sink \o SubSeq(data, begin, begin + len - 1)

tcsendbreak(sink) == Append(sink, BREAK)

\* case escape_idle of process_buffer_range
escape_idle_case(buf, begin, sink) ==
  LET end == Len(buf) + 1
      cr == memchr(buf, begin, CR)
      lf == memchr(buf, begin, LF)
      cursor == IF cr # 0 THEN cr + 1 ELSE IF lf # 0 THEN lf + 1 ELSE end
  IN [state |-> IF cr # 0 THEN "escape_cr"
                ELSE IF lf # 0 THEN "escape_lf" ELSE "escape_idle",
      cursor |-> cursor,
      sink |-> console_data_out(sink, buf, begin, cursor - begin)]

\* escape_cr_case taking a tilde after \r for an ordinary byte
escape_cr_ignores_tilde(buf, begin, sink) ==
  IF buf[begin] = LF
  THEN [state |-> "escape_lf", cursor |-> begin + 1,
        sink |-> console_data_out(sink, buf, begin, 1)]
  ELSE [state |-> "escape_idle", cursor |-> begin, sink |-> sink]

\* escape_cr_case handing a byte that is no \n and no tilde to the
\* escape_lf case instead of the idle one
escape_cr_defers_to_lf(buf, begin, sink) ==
  IF buf[begin] = LF
  THEN [state |-> "escape_lf", cursor |-> begin + 1,
        sink |-> console_data_out(sink, buf, begin, 1)]
  ELSE IF buf[begin] = TILDE
  THEN [state |-> "escape_leader", cursor |-> begin + 1, sink |-> sink]
  ELSE [state |-> "escape_lf", cursor |-> begin, sink |-> sink]

\* case escape_cr of process_buffer_range
escape_cr_case(buf, begin, sink) ==
  IF buf[begin] = LF
  THEN [state |-> "escape_lf", cursor |-> begin + 1,
        sink |-> console_data_out(sink, buf, begin, 1)]
  ELSE IF buf[begin] = TILDE
  THEN [state |-> "escape_leader", cursor |-> begin + 1, sink |-> sink]
  ELSE [state |-> "escape_idle", cursor |-> begin, sink |-> sink]

\* case escape_lf of process_buffer_range
escape_lf_case(buf, begin, sink) ==
  IF buf[begin] = TILDE
  THEN [state |-> "escape_leader", cursor |-> begin + 1, sink |-> sink]
  ELSE [state |-> "escape_idle", cursor |-> begin, sink |-> sink]

\* escape_leader_case with the unrecognised escape's tilde not emitted
escape_leader_drops_tilde(buf, begin, sink) ==
  IF buf[begin] = CharB
  THEN [state |-> "escape_idle", cursor |-> begin + 1,
        sink |-> tcsendbreak(sink)]
  ELSE [state |-> "escape_idle", cursor |-> begin, sink |-> sink]

\* escape_leader_case with the second tilde of the tilde escape consumed
escape_leader_eats_tilde(buf, begin, sink) ==
  IF buf[begin] = CharB
  THEN [state |-> "escape_idle", cursor |-> begin + 1,
        sink |-> tcsendbreak(sink)]
  ELSE IF buf[begin] = TILDE
  THEN [state |-> "escape_idle", cursor |-> begin + 1, sink |-> sink]
  ELSE [state |-> "escape_idle", cursor |-> begin,
        sink |-> console_data_out(sink, <<TILDE>>, 1, 1)]

\* escape_leader_case with the B of the break escape left in the input
escape_leader_keeps_b(buf, begin, sink) ==
  IF buf[begin] = CharB
  THEN [state |-> "escape_idle", cursor |-> begin,
        sink |-> tcsendbreak(sink)]
  ELSE IF buf[begin] = TILDE
  THEN [state |-> "escape_idle", cursor |-> begin, sink |-> sink]
  ELSE [state |-> "escape_idle", cursor |-> begin,
        sink |-> console_data_out(sink, <<TILDE>>, 1, 1)]

\* case escape_leader of process_buffer_range
escape_leader_case(buf, begin, sink) ==
  IF buf[begin] = CharB
  THEN [state |-> "escape_idle", cursor |-> begin + 1,
        sink |-> tcsendbreak(sink)]
  ELSE IF buf[begin] = TILDE
  THEN [state |-> "escape_idle", cursor |-> begin, sink |-> sink]
  ELSE [state |-> "escape_idle", cursor |-> begin,
        sink |-> console_data_out(sink, <<TILDE>>, 1, 1)]

\* process_buffer_range(sh, begin, end): one call of the escape parser on
\* buf[begin..], in parser state st; the new state, the returned cursor and
\* the tty after the call
process_buffer_range(st, buf, begin, sink) ==
  CASE st = "escape_idle" -> escape_idle_case(buf, begin, sink)
    [] st = "escape_cr" -> escape_cr_case(buf, begin, sink)
    [] st = "escape_lf" -> escape_lf_case(buf, begin, sink)
    [] st = "escape_leader" -> escape_leader_case(buf, begin, sink)

\* the loop of client_poll that feeds a received buffer to the parser:
\*   while (begin && begin < end) begin = process_buffer_range(sh, begin, end);
RECURSIVE feed_loop(_, _, _, _)
feed_loop(st, buf, begin, sink) ==
  IF begin < Len(buf) + 1
  THEN LET r == process_buffer_range(st, buf, begin, sink)
       IN feed_loop(r.state, buf, r.cursor, r.sink)
  ELSE [state |-> st, sink |-> sink]

(***************************************************************************)
(* The ring buffer and a consumer's cursor (ringbuffer.c).  Positions are  *)
(* counted from the first byte ever queued, so a byte of the stream is     *)
(* named by its offset; the storage wraps at RingSize.                     *)
(***************************************************************************)
\* ringbuffer_len(rbc): bytes queued and not yet committed by this consumer
ringbuffer_len(head, rbc) == head - rbc.pos

\* ringbuffer_dequeue_peek(rbc, offset, &buf): the length of the contiguous
\* run that starts offset bytes after the cursor (0 when nothing is left)
ringbuffer_dequeue_peek(head, rbc, offset) ==
  IF offset >= ringbuffer_len(head, rbc) THEN 0
  ELSE LET p == rbc.pos + offset
       IN Min({head - p, RingSize - (p % RingSize)})

\* ringbuffer_dequeue_commit(rbc, len)
ringbuffer_dequeue_commit(rbc, len) == [rbc EXCEPT !.pos = @ + len]

(***************************************************************************)
(* The dispatcher's registration of one descriptor (console-server.c).     *)
(***************************************************************************)
POLLIN == "POLLIN"
POLLOUT == "POLLOUT"

\* console_poller_set_events(console, poller, events)
console_poller_set_events(pl, events) == [pl EXCEPT !.events = events]

\* console_poller_set_timeout(console, poller, &tv): arms the one-shot timer
console_poller_set_timeout(pl) == [pl EXCEPT !.timeout = TRUE]

(***************************************************************************)
(* send(): what the socket answers is an input, given as a script of       *)
(* results for the sends of one callback, in order.  A send that the       *)
(* script does not cover transfers all it is given.                        *)
(***************************************************************************)
Outcomes == {"FULL", "PART", "EAGAIN", "EINTR", "EPIPE", "ZERO"}

\* the value send(fd, buf + pos, n, flags) returns for a scripted result
send_rc(o, n) ==
  CASE o = "FULL" -> n
    [] o = "PART" -> 1
    [] o = "ZERO" -> 0
    [] o \in {"EAGAIN", "EINTR", "EPIPE"} -> -1

\* client_set_blocked(client, blocked), on the client structure cl and its
\* registration pl
client_set_blocked(cl, pl, blocked) ==
  IF cl.blocked = blocked THEN [cl |-> cl, pl |-> pl]
  ELSE [cl |-> [cl EXCEPT !.blocked = blocked],
        pl |-> console_poller_set_events(
                 pl, IF blocked THEN {POLLIN, POLLOUT} ELSE {POLLIN})]

\* the for loop of send_all from position pos.  r carries the client, its
\* registration, the rest of the script and what the call did so far:
\* segs, the byte ranges handed to the socket; nsend, the send() calls;
\* intr, the calls that were interrupted; err, a hard failure; again, the
\* last send() would have blocked.
RECURSIVE send_all_for(_, _, _, _, _)
send_all_for(pos, r, base, len, block) ==
  IF ~(pos < len) THEN [r EXCEPT !.ret = ToSsize(pos)]
  ELSE
    LET o == IF r.script = <<>> THEN "FULL" ELSE Head(r.script)
        rc == send_rc(o, len - pos)
        r1 == [r EXCEPT !.script = IF @ = <<>> THEN <<>> ELSE Tail(@),
                        !.nsend = @ + 1]
    IN IF rc < 0
       THEN IF ~block /\ o = "EAGAIN"
            THEN LET b == client_set_blocked(r1.cl, r1.pl, TRUE)
                 IN [r1 EXCEPT !.cl = b.cl, !.pl = b.pl, !.again = TRUE,
                               !.ret = ToSsize(pos)]
            ELSE IF o = "EINTR"
            \* continue: the loop's step pos += rc runs with rc = -1
            THEN send_all_for(ToSize(pos + rc), [r1 EXCEPT !.intr = @ + 1],
                              base, len, block)
            ELSE [r1 EXCEPT !.ret = -1, !.err = TRUE]
       ELSE IF rc = 0
       THEN [r1 EXCEPT !.ret = -1, !.err = TRUE]
       ELSE send_all_for(
              ToSize(pos + rc),
              [r1 EXCEPT !.segs = Append(@, <<base + pos, base + pos + rc>>)],
              base, len, block)

EINVAL == 22

\* send_all(client, buf, len, block); base is the stream offset of buf[0]
send_all(cl, pl, base, len, block, script) ==
  LET r0 == [cl |-> cl, pl |-> pl, script |-> script, segs |-> <<>>,
             nsend |-> 0, intr |-> 0, err |-> FALSE, again |-> FALSE,
             ret |-> 0]
  IN IF len > SSIZE_MAX THEN [r0 EXCEPT !.ret = -EINVAL]
     ELSE send_all_for(0, r0, base, len, block)

\* the number of bytes in a sequence of ranges
RECURSIVE SegBytes(_)
SegBytes(segs) ==
  IF segs = <<>> THEN 0
  ELSE (Head(segs)[2] - Head(segs)[1]) + SegBytes(Tail(segs))

\* what one send_all call of a drain did: s is what send_all returned, for a
\* run of len bytes, with the client's blocked flag as it was at the call
CallRecord(s, len, block, blocked0) ==
  [len |-> len, block |-> block, blocked0 |-> blocked0, ret |-> s.ret,
   wrote |-> SegBytes(s.segs), nsend |-> s.nsend, intr |-> s.intr,
   err |-> s.err, again |-> s.again]

\* the for (;;) loop of client_drain_queue.  d carries the client, its
\* registration, the script, total_len, wlen and the record of the send_all
\* calls made.  drain_loop is the loop from its top, drain_peeked the loop
\* once ringbuffer_dequeue_peek has returned len, drain_sent the loop once
\* send_all has returned s.
RECURSIVE drain_loop(_, _, _, _, _)

drain_sent(d, s, len, rbc, head, force_len, block) ==
  IF s.ret <= 0
  THEN [d EXCEPT !.cl = s.cl, !.pl = s.pl, !.script = s.script,
                 !.wlen = s.ret, !.segs = @ \o s.segs,
                 !.calls = Append(@, CallRecord(s, len, block, d.cl.blocked))]
  ELSE IF force_len # 0 /\ ToSize(d.total_len + s.ret) >= force_len
  THEN [d EXCEPT !.cl = s.cl, !.pl = s.pl, !.script = s.script,
                 !.wlen = s.ret, !.segs = @ \o s.segs,
                 !.calls = Append(@, CallRecord(s, len, block, d.cl.blocked)),
                 !.total_len = ToSize(@ + s.ret)]
  ELSE drain_loop(
         [d EXCEPT !.cl = s.cl, !.pl = s.pl, !.script = s.script,
                   !.wlen = s.ret, !.segs = @ \o s.segs,
                   !.calls = Append(@, CallRecord(s, len, block, d.cl.blocked)),
                   !.total_len = ToSize(@ + s.ret)],
         rbc, head, force_len, block)

drain_peeked(d, len, rbc, head, force_len, block) ==
  IF len = 0 THEN d
  ELSE drain_sent(
         d, send_all(d.cl, d.pl, rbc.pos + d.total_len, len, block, d.script),
         len, rbc, head, force_len, block)

drain_loop(d, rbc, head, force_len, block) ==
  drain_peeked(d, ringbuffer_dequeue_peek(head, rbc, d.total_len),
               rbc, head, force_len, block)

\* client_drain_queue without the check that force_len was reached
drain_end_unforced(d, rbc, force_len) ==
  IF d.wlen < 0
  THEN [rc |-> -1, cl |-> d.cl, pl |-> d.pl, rbc |-> rbc,
        script |-> d.script, segs |-> d.segs, calls |-> d.calls,
        commit |-> 0]
  ELSE [rc |-> 0, cl |-> d.cl, pl |-> d.pl,
        rbc |-> ringbuffer_dequeue_commit(rbc, d.total_len),
        script |-> d.script, segs |-> d.segs, calls |-> d.calls,
        commit |-> d.total_len]

\* client_drain_queue after its loop has ended in d
drain_end(d, rbc, force_len) ==
  IF d.wlen < 0 \/ (force_len # 0 /\ d.total_len < force_len)
  THEN [rc |-> -1, cl |-> d.cl, pl |-> d.pl, rbc |-> rbc,
        script |-> d.script, segs |-> d.segs, calls |-> d.calls,
        commit |-> 0]
  ELSE [rc |-> 0, cl |-> d.cl, pl |-> d.pl,
        rbc |-> ringbuffer_dequeue_commit(rbc, d.total_len),
        script |-> d.script, segs |-> d.segs, calls |-> d.calls,
        commit |-> d.total_len]

\* the locals of client_drain_queue before its loop
Drain0(cl, pl, script) ==
  [cl |-> cl, pl |-> pl, script |-> script, total_len |-> 0, wlen |-> 0,
   segs |-> <<>>, calls |-> <<>>]

client_drain_queue_noguard(cl, pl, rbc, head, force_len, script) ==
  drain_end(drain_loop(Drain0(cl, pl, script), rbc, head, force_len,
                       force_len # 0),
            rbc, force_len)

\* client_drain_queue(client, force_len): rc, the client, its registration
\* and its cursor after the call, with the record of what was sent
client_drain_queue(cl, pl, rbc, head, force_len, script) ==
  IF ~(force_len # 0) /\ cl.blocked
  THEN [rc |-> 0, cl |-> cl, pl |-> pl, rbc |-> rbc, script |-> script,
        segs |-> <<>>, calls |-> <<>>, commit |-> 0]
  ELSE drain_end(drain_loop(Drain0(cl, pl, script), rbc, head, force_len,
                            force_len # 0),
                 rbc, force_len)

(***************************************************************************)
(* The state.                                                              *)
(***************************************************************************)
VARIABLES
  state,       \* console->state, the escape parser's state
  tty,         \* what console_data_out and tcsendbreak put on the tty, in order
  mem,         \* mem[c]: "unused", "live" or "freed" (malloc and free)
  client,      \* client[c]: struct client (fd, poller, rbc, blocked)
  clients,     \* sh->clients
  n_clients,   \* sh->n_clients
  sd,          \* sh->sd, the listening descriptor: "open" or "closed"
  pollers,     \* the dispatcher's registrations: 0 is sh->poller, c is client c's
  consumers,   \* the ring buffer's consumers: consumers[c] is client c's cursor
  rb_head,     \* bytes queued to the ring buffer so far
  sock,        \* sock[c]: the byte ranges written to client c's socket, in order
  log,         \* resource events in program order: <<event, client or 0>>
  inp,         \* the bytes received from clients so far, in order
  reads,       \* recv calls that returned data
  rx,          \* who received what: one [c, buf] for each of those calls
  n_queues,    \* ringbuffer_queue calls
  n_scripted,  \* send results scripted so far
  n_calls,     \* the calls counted so far: those of Spec
  last         \* what the last callback did

vars == <<state, tty, mem, client, clients, n_clients, sd, pollers, consumers,
          rb_head, sock, log, inp, reads, rx, n_queues, n_scripted,
          n_calls, last>>

\* the part of the state the handler's functions work on, as one value
World ==
  [state |-> state, tty |-> tty, mem |-> mem, client |-> client,
   clients |-> clients, n_clients |-> n_clients, sd |-> sd,
   pollers |-> pollers, consumers |-> consumers, rb_head |-> rb_head,
   sock |-> sock, log |-> log]

Install(w) ==
  /\ state' = w.state
  /\ tty' = w.tty
  /\ mem' = w.mem
  /\ client' = w.client
  /\ clients' = w.clients
  /\ n_clients' = w.n_clients
  /\ sd' = w.sd
  /\ pollers' = w.pollers
  /\ consumers' = w.consumers
  /\ rb_head' = w.rb_head
  /\ sock' = w.sock
  /\ log' = w.log

Log(w, what, who) == [w EXCEPT !.log = Append(@, <<what, who>>)]

NoPoller == [reg |-> FALSE, events |-> {}, timeout |-> FALSE]
NoConsumer == [reg |-> FALSE, pos |-> 0, start |-> 0]
NoStruct == [fd |-> "none", poller |-> FALSE, rbc |-> FALSE, blocked |-> FALSE]

\* console_poller_register(console, handler, poll_fn, timeout_fn, fd, events, data)
console_poller_register(w, i, events) ==
  Log([w EXCEPT !.pollers[i] =
         [reg |-> TRUE, events |-> events, timeout |-> FALSE]],
      "poller_register", i)

\* console_poller_unregister(console, poller)
console_poller_unregister(w, i) ==
  Log([w EXCEPT !.pollers[i] = NoPoller], "poller_unregister", i)

\* console_ringbuffer_consumer_register(console, poll_fn, data): the cursor
\* starts at the buffer's tail
console_ringbuffer_consumer_register(w, c) ==
  Log([w EXCEPT !.consumers[c] =
         [reg |-> TRUE, pos |-> w.rb_head, start |-> w.rb_head]],
      "rbc_register", c)

\* ringbuffer_consumer_unregister(rbc)
ringbuffer_consumer_unregister(w, c) ==
  Log([w EXCEPT !.consumers[c].reg = FALSE], "rbc_unregister", c)

\* the bytes of range seg written to a socket that has taken s so far
AppendSeg(s, seg) ==
  IF s # <<>> /\ s[Len(s)][2] = seg[1]
  THEN [s EXCEPT ![Len(s)] = <<@[1], seg[2]>>]
  ELSE Append(s, seg)

RECURSIVE AppendSegs(_, _)
AppendSegs(s, segs) ==
  IF segs = <<>> THEN s
  ELSE AppendSegs(AppendSeg(s, Head(segs)), Tail(segs))

\* client_close up to the search of sh->clients: the descriptor is closed
\* and the registrations the client still holds are released
release_poller(w, c) ==
  IF w.client[c].poller THEN console_poller_unregister(w, c) ELSE w

release_rbc(w, c) ==
  IF w.client[c].rbc THEN ringbuffer_consumer_unregister(w, c) ELSE w

\* client_close dropping the last entry of the array instead of the
\* client's own
remove_client_drops_last(w, c) ==
  LET n == w.n_clients - 1
  IN [w EXCEPT !.mem[c] = "freed",
               !.log = Append(@, <<"free", c>>),
               !.n_clients = n,
               !.clients = [i \in 1..n |-> w.clients[i]]]

\* client_close from the search of sh->clients on: the client is freed and
\* its entry is taken out of the array
remove_client(w, c) ==
  LET found == {i \in 1..w.n_clients : w.clients[i] = c}
      \* assert(idx < sh->n_clients)
      idx == IF found = {} THEN w.n_clients + 1 ELSE Min(found)
      n == w.n_clients - 1
  IN [w EXCEPT !.mem[c] = "freed",
               !.log = Append(@, <<"free", c>>),
               !.n_clients = n,
               !.clients = [i \in 1..n |->
                              IF i < idx THEN w.clients[i]
                              ELSE w.clients[i + 1]]]

\* client_close(client)
client_close(w, c) ==
  remove_client(
    release_rbc(
      release_poller(
        Log([w EXCEPT !.client[c].fd = "closed"], "close", c), c), c), c)

\* what a callback that did not call client_drain_queue reports
NoDrain == [called |-> FALSE, rc |-> 0, commit |-> 0, calls |-> <<>>]

\* client c of w after a client_drain_queue call that returned r
drained(w, c, r) ==
  [w |-> [w EXCEPT !.client[c] = r.cl, !.pollers[c] = r.pl,
                   !.consumers[c] = r.rbc,
                   !.sock[c] = AppendSegs(@, r.segs)],
   d |-> [called |-> TRUE, rc |-> r.rc, commit |-> r.commit,
          calls |-> r.calls]]

\* client_drain_queue(client, force_len) on client c of w
drain_on(w, c, force_len, script) ==
  drained(w, c,
          client_drain_queue(w.client[c], w.pollers[c], w.consumers[c],
                             w.rb_head, force_len, script))

\* client_ringbuffer_poll closing the client with client->rbc still set
notify_drained_keeps_rbc(r, c) ==
  IF r.d.rc # 0
  THEN [w |-> client_close(r.w, c),
        ret |-> "RINGBUFFER_POLL_REMOVE", d |-> r.d]
  ELSE [w |-> r.w, ret |-> "RINGBUFFER_POLL_OK", d |-> r.d]

\* client_ringbuffer_poll once client_drain_queue has returned r
notify_drained(r, c) ==
  IF r.d.rc # 0
  THEN [w |-> client_close([r.w EXCEPT !.client[c].rbc = FALSE], c),
        ret |-> "RINGBUFFER_POLL_REMOVE", d |-> r.d]
  ELSE [w |-> r.w, ret |-> "RINGBUFFER_POLL_OK", d |-> r.d]

\* client_ringbuffer_poll deferring without setting the timeout
client_ringbuffer_poll_no_timeout(w, c, force_len, script) ==
  IF force_len = 0
     /\ ringbuffer_len(w.rb_head, w.consumers[c]) < SOCKET_HANDLER_PKT_SIZE
  THEN [w |-> w, ret |-> "RINGBUFFER_POLL_OK", d |-> NoDrain]
  ELSE notify_drained(drain_on(w, c, force_len, script), c)

\* client_ringbuffer_poll deferring a full packet as well
client_ringbuffer_poll_defers_packet(w, c, force_len, script) ==
  IF force_len = 0
     /\ ringbuffer_len(w.rb_head, w.consumers[c]) <= SOCKET_HANDLER_PKT_SIZE
  THEN [w |-> [w EXCEPT !.pollers[c] = console_poller_set_timeout(@)],
        ret |-> "RINGBUFFER_POLL_OK", d |-> NoDrain]
  ELSE notify_drained(drain_on(w, c, force_len, script), c)

\* client_ringbuffer_poll(arg, force_len)
client_ringbuffer_poll(w, c, force_len, script) ==
  IF force_len = 0
     /\ ringbuffer_len(w.rb_head, w.consumers[c]) < SOCKET_HANDLER_PKT_SIZE
  THEN [w |-> [w EXCEPT !.pollers[c] = console_poller_set_timeout(@)],
        ret |-> "RINGBUFFER_POLL_OK", d |-> NoDrain]
  ELSE notify_drained(drain_on(w, c, force_len, script), c)

\* client_timeout once client_drain_queue has returned r
timeout_drained(r, c) ==
  IF r.d.rc # 0
  THEN [w |-> client_close(r.w, c), ret |-> "POLLER_REMOVE", d |-> r.d]
  ELSE [w |-> r.w, ret |-> "POLLER_OK", d |-> r.d]

\* client_timeout(handler, data)
client_timeout(w, c, script) ==
  IF w.client[c].blocked
  THEN [w |-> w, ret |-> "POLLER_OK", d |-> NoDrain]
  ELSE timeout_drained(drain_on(w, c, 0, script), c)

\* the err_close path of client_poll
err_close(w, c, d) ==
  [w |-> client_close([w EXCEPT !.client[c].poller = FALSE], c),
   ret |-> "POLLER_REMOVE", d |-> d]

\* client_poll's POLLIN part with a parser that starts every read idle
poll_in_own_state(w, buf) ==
  LET f == feed_loop("escape_idle", buf, 1, w.tty)
  IN [w EXCEPT !.state = f.state, !.tty = f.sink]

\* client_poll's POLLIN part once recv has returned the bytes buf
poll_in(w, buf) ==
  LET f == feed_loop(w.state, buf, 1, w.tty)
  IN [w EXCEPT !.state = f.state, !.tty = f.sink]

\* client c of w after client_set_blocked returned b
with_blocked(w, c, b) == [w EXCEPT !.client[c] = b.cl, !.pollers[c] = b.pl]

\* client_poll's POLLOUT part once client_drain_queue has returned r
poll_drained(r, c) ==
  IF r.d.rc # 0 THEN err_close(r.w, c, r.d)
  ELSE [w |-> r.w, ret |-> "POLLER_OK", d |-> r.d]

\* client_poll's POLLOUT part
poll_out(w, c, events, script) ==
  IF POLLOUT \in events
  THEN poll_drained(
         drain_on(with_blocked(w, c,
                    client_set_blocked(w.client[c], w.pollers[c], FALSE)),
                  c, 0, script), c)
  ELSE [w |-> w, ret |-> "POLLER_OK", d |-> NoDrain]

\* client_poll(handler, events, data); rcv is what recv() returns
client_poll(w, c, events, rcv, script) ==
  IF POLLIN \in events /\ rcv.kind = "EAGAIN"
  THEN [w |-> w, ret |-> "POLLER_OK", d |-> NoDrain]
  ELSE IF POLLIN \in events /\ rcv.kind \in {"ERR", "EOF"}
  THEN err_close(w, c, NoDrain)
  ELSE poll_out(IF POLLIN \in events THEN poll_in(w, rcv.buf) ELSE w,
                c, events, script)

\* the part of socket_poll and of dbus_create_socket_consumer that puts the
\* new client at the end of sh->clients
add_client(w, c) ==
  LET n == w.n_clients
  IN [w EXCEPT !.n_clients = n + 1,
               !.clients = [i \in 1..(n + 1) |->
                              IF i <= n THEN w.clients[i] ELSE c],
               !.log = Append(@, <<"listed", c>>)]

\* malloc and memset of a client, and client->fd = fd
new_client(w, c) ==
  [w EXCEPT !.mem[c] = "live",
            !.client[c] = [NoStruct EXCEPT !.fd = "open"],
            !.log = Append(@, <<"malloc", c>>)]

\* client->poller = console_poller_register(...)
set_poller(w, c) ==
  [console_poller_register(w, c, {POLLIN}) EXCEPT !.client[c].poller = TRUE]

\* client->rbc = console_ringbuffer_consumer_register(...); rbc_ok is
\* whether the registration returns a cursor
set_rbc(w, c, rbc_ok) ==
  IF rbc_ok
  THEN [console_ringbuffer_consumer_register(w, c)
          EXCEPT !.client[c].rbc = TRUE]
  ELSE w

\* socket_poll(handler, events, data) once accept() has returned a
\* descriptor; c is the client structure malloc returns
socket_poll(w, c, rbc_ok) ==
  add_client(set_rbc(set_poller(new_client(w, c), c), c, rbc_ok), c)

\* free_client: free(client); close_fds: close(fds[0]); close(fds[1])
free_client(w, c) ==
  [w EXCEPT !.mem[c] = "freed", !.client[c].fd = "closed",
            !.log = @ \o << <<"free", c>>, <<"close", c>> >>]

\* dbus_create_socket_consumer(console); the result is the new state and the
\* value returned
dbus_create_socket_consumer(w, c, sh_found, pair_ok, malloc_ok, rbc_ok) ==
  IF ~sh_found THEN [w |-> w, rc |-> "-ENOSYS"]
  ELSE IF ~pair_ok THEN [w |-> w, rc |-> "-errno"]
  ELSE IF ~malloc_ok THEN [w |-> w, rc |-> "-ENOMEM"]
  ELSE IF ~rbc_ok
  THEN [w |-> free_client(set_poller(new_client(w, c), c), c),
        rc |-> "-ENOMEM"]
  ELSE [w |-> add_client(set_rbc(set_poller(new_client(w, c), c), c, TRUE), c),
        rc |-> "fds[1]"]

\* the loop of socket_fini: while (sh->n_clients) client_close(sh->clients[0])
RECURSIVE fini_loop(_)
fini_loop(w) ==
  IF w.n_clients # 0 THEN fini_loop(client_close(w, w.clients[1])) ELSE w

\* socket_fini after its loop
fini_end(w) ==
  [(IF w.pollers[0].reg THEN console_poller_unregister(w, 0) ELSE w)
     EXCEPT !.sd = "closed", !.log = Append(@, <<"close", 0>>)]

\* socket_fini releasing the listening socket before it closes the clients
socket_fini_listener_first(w) == fini_loop(fini_end(w))

\* socket_fini(handler)
socket_fini(w) == fini_end(fini_loop(w))

(***************************************************************************)
(* Init: socket_init has succeeded, no client is connected, the parser is  *)
(* idle and nothing has been queued.                                       *)
(***************************************************************************)
NoCall == [op |-> "none", c |-> 0, force |-> 0, events |-> {},
           ret |-> "none",
           d |-> NoDrain, blocked0 |-> FALSE, avail0 |-> 0, pos0 |-> 0]

World0 ==
  [state |-> "escape_idle", tty |-> <<>>,
   mem |-> [c \in ClientIds |-> "unused"],
   client |-> [c \in ClientIds |-> NoStruct],
   clients |-> <<>>, n_clients |-> 0, sd |-> "open",
   pollers |-> [i \in 0..MaxClients |->
                  IF i = 0
                  THEN [reg |-> TRUE, events |-> {POLLIN}, timeout |-> FALSE]
                  ELSE NoPoller],
   consumers |-> [c \in ClientIds |-> NoConsumer],
   rb_head |-> 0,
   sock |-> [c \in ClientIds |-> <<>>],
   log |-> <<>>]

Starts(w) ==
  /\ state = w.state
  /\ tty = w.tty
  /\ mem = w.mem
  /\ client = w.client
  /\ clients = w.clients
  /\ n_clients = w.n_clients
  /\ sd = w.sd
  /\ pollers = w.pollers
  /\ consumers = w.consumers
  /\ rb_head = w.rb_head
  /\ sock = w.sock
  /\ log = w.log
  /\ inp = <<>>
  /\ reads = 0
  /\ rx = <<>>
  /\ n_queues = 0
  /\ n_scripted = 0
  /\ n_calls = 0

Init == Starts(World0) /\ last = NoCall

(***************************************************************************)
(* Actions: one per callback the dispatcher or the ring buffer makes.      *)
(***************************************************************************)
Unused == {c \in ClientIds : mem[c] = "unused"}

\* what a callback on client c is told about the drain it made
Called(op, c, force, events, r) ==
  [op |-> op, c |-> c, force |-> force, events |-> events, ret |-> r.ret,
   d |-> r.d,
   blocked0 |-> client[c].blocked,
   avail0 |-> ringbuffer_len(rb_head, consumers[c]),
   pos0 |-> consumers[c].pos]

RECURSIVE NSend(_)
NSend(calls) ==
  IF calls = <<>> THEN 0 ELSE Head(calls).nsend + NSend(Tail(calls))

\* the script is no longer than the sends the callback makes
Used(script, d) == Len(script) <= NSend(d.calls)

\* what callback op on client c does under a script of send results
Run(op, w, c, force_len, events, rcv, script) ==
  CASE op = "notify" -> client_ringbuffer_poll(w, c, force_len, script)
    [] op = "timeout" -> client_timeout(w, c, script)
    [] op = "poll" -> client_poll(w, c, events, rcv, script)

\* the scripts of up to k send results of which the callback reaches the
\* last: a script of k results is one of k - 1 that the callback outruns,
\* and one more result
RECURSIVE UsedScripts(_, _, _, _, _, _, _)
UsedScripts(op, w, c, force_len, events, rcv, k) ==
  IF k = 0 THEN {<<>>}
  ELSE LET P == UsedScripts(op, w, c, force_len, events, rcv, k - 1)
       IN P \cup
          {Append(p, o) :
             p \in {q \in P :
                      /\ Len(q) = k - 1
                      /\ NSend(Run(op, w, c, force_len, events, rcv, q).d.calls)
                           >= k},
             o \in Outcomes}

\* a callback on client c has returned r: the caller releases what the
\* callback asked it to remove (the ring buffer its consumer, the
\* dispatcher its registration)
Returned(op, c, force, events, script, r) ==
  /\ Len(script) <= MaxScript - n_scripted
  /\ Used(script, r.d)
  /\ Install(IF r.ret = "RINGBUFFER_POLL_REMOVE"
             THEN ringbuffer_consumer_unregister(r.w, c)
             ELSE IF r.ret = "POLLER_REMOVE"
             THEN console_poller_unregister(r.w, c)
             ELSE r.w)
  /\ last' = Called(op, c, force, events, r)
  /\ n_scripted' = n_scripted + Len(script)

\* the dispatcher calls socket_poll for the listening descriptor
SocketPoll(events, acc_ok, rbc_ok) ==
  /\ sd = "open"
  /\ pollers[0].reg
  /\ Unused # {}
  /\ LET c == Min(Unused)
     IN IF POLLIN \notin events \/ ~acc_ok
        THEN /\ UNCHANGED <<state, tty, mem, client, clients, n_clients, sd,
                            pollers, consumers, rb_head, sock, log>>
             /\ last' = [NoCall EXCEPT !.op = "socket_poll", !.ret = "POLLER_OK"]
        ELSE /\ Install(socket_poll(World, c, rbc_ok))
             /\ last' = [NoCall EXCEPT !.op = "socket_poll", !.c = c,
                                       !.ret = "POLLER_OK"]
  /\ UNCHANGED <<inp, reads, rx, n_queues, n_scripted>>

Attached(c, r) ==
  /\ Install(r.w)
  /\ last' = [NoCall EXCEPT !.op = "attach", !.c = c, !.ret = r.rc]

\* a caller on the D-Bus side calls dbus_create_socket_consumer
Attach(cause) ==
  /\ sd = "open"
  /\ Unused # {}
  /\ Attached(Min(Unused),
              dbus_create_socket_consumer(
                World, Min(Unused), cause # "no handler", cause # "no pair",
                cause # "no memory", cause # "no consumer"))
  /\ UNCHANGED <<inp, reads, rx, n_queues, n_scripted>>

\* ringbuffer_queue appends n bytes; every consumer has room for them
QueueLens == {2, SOCKET_HANDLER_PKT_SIZE}
Queue(n) ==
  /\ sd = "open"
  /\ n_queues < MaxQueues
  /\ \A c \in ClientIds :
       consumers[c].reg => rb_head + n - consumers[c].pos < RingSize
  /\ rb_head' = rb_head + n
  /\ n_queues' = n_queues + 1
  /\ last' = [NoCall EXCEPT !.op = "queue", !.force = n]
  /\ UNCHANGED <<state, tty, mem, client, clients, n_clients, sd, pollers,
                 consumers, sock, log, inp, reads, rx, n_scripted>>

\* the ring buffer calls a consumer's poll function, and removes the
\* consumer when the function says so
ForceLens == {0, 1, 5}
Notify(c, force_len, script) ==
  /\ sd = "open"
  /\ consumers[c].reg
  /\ Returned("notify", c, force_len, {}, script,
              client_ringbuffer_poll(World, c, force_len, script))
  /\ UNCHANGED <<inp, reads, rx, n_queues>>

\* the dispatcher finds client c's timer expired: it clears the timer, calls
\* client_timeout, and releases the registration when told to
Timeout(c, script) ==
  /\ sd = "open"
  /\ mem[c] = "live"
  /\ pollers[c].reg
  /\ pollers[c].timeout
  /\ Returned("timeout", c, 0, {}, script,
              client_timeout([World EXCEPT !.pollers[c].timeout = FALSE],
                             c, script))
  /\ UNCHANGED <<inp, reads, rx, n_queues>>

NoData == [kind |-> "NONE", buf |-> <<>>]
RecvFails == {[kind |-> k, buf |-> <<>>] : k \in {"EAGAIN", "ERR", "EOF"}}
Data(chunk) == [kind |-> "DATA", buf |-> chunk]

\* the dispatcher reports events on client c's descriptor, calls client_poll
\* and releases the registration when told to
PollStep(c, events, rcv, script) ==
  /\ sd = "open"
  /\ mem[c] = "live"
  /\ pollers[c].reg
  /\ events # {}
  /\ events \subseteq pollers[c].events
  /\ Returned("poll", c, 0, events, script,
              client_poll(World, c, events, rcv, script))
  /\ inp' = inp \o rcv.buf
  /\ reads' = IF rcv.kind = "DATA" THEN reads + 1 ELSE reads
  /\ rx' = IF rcv.kind = "DATA" THEN Append(rx, [c |-> c, buf |-> rcv.buf])
           ELSE rx
  /\ UNCHANGED n_queues

FlowChunks == {<<CharX>>}
Poll(c, events, rcv, script) ==
  /\ rcv.kind = "DATA" => reads < MaxReads
  /\ PollStep(c, events, rcv, script)

\* the console server tears the handler down
Fini ==
  /\ sd = "open"
  /\ Install(socket_fini(World))
  /\ last' = [NoCall EXCEPT !.op = "fini"]
  /\ UNCHANGED <<inp, reads, rx, n_queues, n_scripted>>

\* the scripts, lengths and received bytes that Spec draws from
ConnScripts == {<<>>, <<"EAGAIN">>, <<"EPIPE">>}
ConnForceLens == {0, 1}
ConnChunks == {<<LF, TILDE, CharB>>}

\* one more call, while the behaviour may have one
Counted == n_calls < MaxCalls /\ n_calls' = n_calls + 1

Next ==
  \/ /\ Counted
     /\ \E events \in {{}, {POLLIN}}, acc_ok, rbc_ok \in BOOLEAN :
          SocketPoll(events, acc_ok, rbc_ok)
  \/ /\ Counted
     /\ \E cause \in {"none", "no handler", "no pair", "no memory",
                       "no consumer"} :
          Attach(cause)
  \/ Counted /\ Queue(2)
  \/ /\ Counted
     /\ \E c \in ClientIds, f \in ConnForceLens, script \in ConnScripts :
          Notify(c, f, script)
  \/ /\ Counted
     /\ \E c \in ClientIds, script \in ConnScripts : Timeout(c, script)
  \/ /\ Counted
     /\ \E c \in ClientIds, events \in SUBSET {POLLIN, POLLOUT} :
          \E rcv \in IF POLLIN \in events
                     THEN RecvFails \cup {Data(b) : b \in ConnChunks}
                     ELSE {NoData} :
            \E script \in IF POLLOUT \in events THEN ConnScripts ELSE {<<>>} :
              Poll(c, events, rcv, script)
  \/ Counted /\ Fini

Spec == Init /\ [][Next]_vars

(***************************************************************************)
(* SpecFlow: one connected client and the callbacks that drain the ring    *)
(* buffer to it, with every script of send results.                        *)
(***************************************************************************)
InitFlow ==
  /\ Starts(socket_poll(World0, 1, TRUE))
  /\ last = [NoCall EXCEPT !.op = "socket_poll", !.c = 1, !.ret = "POLLER_OK"]

NextFlow ==
  \/ /\ UNCHANGED n_calls
     /\ \E n \in QueueLens : Queue(n)
  \/ /\ UNCHANGED n_calls
     /\ \E c \in ClientIds, f \in ForceLens :
          \E script \in UsedScripts("notify", World, c, f, {}, NoData,
                                    MaxScript - n_scripted) :
            Notify(c, f, script)
  \/ /\ UNCHANGED n_calls
     /\ \E c \in ClientIds :
          \E script \in UsedScripts("timeout", World, c, 0, {}, NoData,
                                    MaxScript - n_scripted) :
            Timeout(c, script)
  \/ /\ UNCHANGED n_calls
     /\ \E c \in ClientIds, events \in SUBSET {POLLIN, POLLOUT} :
          \E rcv \in IF POLLIN \in events
                     THEN RecvFails \cup {Data(b) : b \in FlowChunks}
                     ELSE {NoData} :
            \E script \in UsedScripts("poll", World, c, 0, events, rcv,
                                      MaxScript - n_scripted) :
              Poll(c, events, rcv, script)

SpecFlow == InitFlow /\ [][NextFlow]_vars

(***************************************************************************)
(* SpecEsc: one connected client whose input arrives in reads of any       *)
(* length; only the read side of client_poll runs.                         *)
(***************************************************************************)
InitEsc == InitFlow

Chunks(n) == UNION {[1..k -> Bytes] : k \in 1..n}

ClientPollIn(c, chunk) ==
  /\ Len(inp) + Len(chunk) <= MaxInput
  /\ PollStep(c, {POLLIN}, Data(chunk), <<>>)

NextEsc ==
  /\ UNCHANGED n_calls
  /\ \E c \in ClientIds, chunk \in Chunks(MaxInput - Len(inp)) :
       ClientPollIn(c, chunk)

SpecEsc == InitEsc /\ [][NextEsc]_vars

(***************************************************************************)
(* SpecShare: two connected clients of one console, each sending input in  *)
(* reads of any length, in any order.                                      *)
(***************************************************************************)
InitShare ==
  /\ Starts(socket_poll(socket_poll(World0, 1, TRUE), 2, TRUE))
  /\ last = [NoCall EXCEPT !.op = "socket_poll", !.c = 2, !.ret = "POLLER_OK"]

SharedBytes == Bytes \ {CR}
SharedChunks(n) == UNION {[1..k -> SharedBytes] : k \in 1..n}

NextShare ==
  /\ UNCHANGED n_calls
  /\ \E c \in ClientIds, chunk \in SharedChunks(MaxShared - Len(inp)) :
       PollStep(c, {POLLIN}, Data(chunk), <<>>)

SpecShare == InitShare /\ [][NextShare]_vars

(***************************************************************************)
(* SpecLive: one connected client and the producer's whole write path: a   *)
(* consumer without room for the new bytes is first told to free the       *)
(* missing ones, the bytes are appended, and the consumer is notified.     *)
(* Armed timers and write-readiness events are eventually delivered.       *)
(***************************************************************************)
\* the bytes consumer c has to free before n more bytes fit
Need(w, c, n) ==
  LET over == ringbuffer_len(w.rb_head, w.consumers[c]) + n - (RingSize - 1)
  IN IF over > 0 THEN over ELSE 0

\* the first part of ringbuffer_queue: the forced call when room is
\* missing, the removal of a consumer that asks for it, and the append
queue_forced(w, c, n, script) ==
  LET need == Need(w, c, n)
      r == IF need > 0 THEN client_ringbuffer_poll(w, c, need, script)
           ELSE [w |-> w, ret |-> "RINGBUFFER_POLL_OK", d |-> NoDrain]
      w1 == IF r.ret = "RINGBUFFER_POLL_REMOVE"
            THEN ringbuffer_consumer_unregister(r.w, c) ELSE r.w
  IN [w |-> [w1 EXCEPT !.rb_head = @ + n], ret |-> r.ret, d |-> r.d]

\* the second part of ringbuffer_queue: the consumer is notified of the
\* appended bytes, and removed when it asks for it
queue_notified(q, c, script) ==
  IF q.ret = "RINGBUFFER_POLL_REMOVE" THEN q
  ELSE LET r == client_ringbuffer_poll(q.w, c, 0, script)
       IN [w |-> IF r.ret = "RINGBUFFER_POLL_REMOVE"
                 THEN ringbuffer_consumer_unregister(r.w, c) ELSE r.w,
           ret |-> r.ret, d |-> r.d]

\* the producer writes n bytes while c is the registered consumer
Write(c, n, s1, s2) ==
  /\ sd = "open"
  /\ n_queues < MaxQueues
  /\ mem[c] = "live"
  /\ consumers[c].reg
  /\ Len(s1) + Len(s2) <= MaxScript - n_scripted
  /\ LET q == queue_forced(World, c, n, s1)
         r == queue_notified(q, c, s2)
     IN /\ Used(s1, q.d)
        /\ q.ret = "RINGBUFFER_POLL_REMOVE" => s2 = <<>>
        /\ q.ret # "RINGBUFFER_POLL_REMOVE" => Used(s2, r.d)
        /\ Install(r.w)
        /\ last' = [Called("write", c, n, {}, r) EXCEPT
                      !.pos0 = q.w.consumers[c].pos]
  /\ n_scripted' = n_scripted + Len(s1) + Len(s2)
  /\ n_queues' = n_queues + 1
  /\ UNCHANGED <<inp, reads, rx>>

Writes ==
  /\ UNCHANGED n_calls
  /\ \E c \in ClientIds, n \in QueueLens :
       \E s1 \in IF Need(World, c, n) > 0
                 THEN UsedScripts("notify", World, c, Need(World, c, n), {},
                                  NoData, MaxScript - n_scripted)
                 ELSE {<<>>} :
         \E s2 \in UsedScripts("notify", queue_forced(World, c, n, s1).w, c,
                               0, {}, NoData,
                               MaxScript - n_scripted - Len(s1)) :
           Write(c, n, s1, s2)

TimerFires ==
  /\ UNCHANGED n_calls
  /\ \E c \in ClientIds :
       \E script \in UsedScripts("timeout", World, c, 0, {}, NoData,
                                 MaxScript - n_scripted) :
         Timeout(c, script)

Writable ==
  /\ UNCHANGED n_calls
  /\ \E c \in ClientIds :
       \E script \in UsedScripts("poll", World, c, 0, {POLLOUT}, NoData,
                                 MaxScript - n_scripted) :
         Poll(c, {POLLOUT}, NoData, script)

NextLive == Writes \/ TimerFires \/ Writable

\* the guard of Timeout, and that of Poll for POLLOUT
TimerDue(c) ==
  sd = "open" /\ mem[c] = "live" /\ pollers[c].reg /\ pollers[c].timeout

WriteReady(c) ==
  sd = "open" /\ mem[c] = "live" /\ pollers[c].reg
  /\ POLLOUT \in pollers[c].events

\* weak fairness of the dispatcher for client c's timeout and for its
\* write-readiness: WF_vars of the two deliveries, with ENABLED written as
\* the delivery's guard
Delivered(c) ==
  /\ []<>(~TimerDue(c))
       \/ []<><<last'.op = "timeout" /\ last'.c = c>>_vars
  /\ []<>(~WriteReady(c))
       \/ []<><<last'.op = "poll" /\ last'.c = c
                /\ POLLOUT \in last'.events>>_vars

SpecLive ==
  /\ InitFlow
  /\ [][NextLive]_vars
  /\ \A c \in ClientIds : Delivered(c)

(***************************************************************************)
(* The claims.                                                             *)
(***************************************************************************)
\* the send_all calls of the last callback
LastCalls == {last.d.calls[i] : i \in 1..Len(last.d.calls)}

RECURSIVE Wrote(_)
Wrote(calls) ==
  IF calls = <<>> THEN 0 ELSE Head(calls).wrote + Wrote(Tail(calls))

\* C1: a send_all call in which sends were interrupted (EINTR) and no send
\* failed otherwise returns the number of bytes it wrote to the socket:
\* the interruption moves the position neither back nor forward and is no
\* failure.
C1_InterruptedSendRetried ==
  \A k \in LastCalls : (k.intr > 0 /\ ~k.err) => k.ret = k.wrote

\* C2: what has been written to a client's socket is a prefix of the stream
\* from the client's cursor start: one range of stream offsets that begins
\* at the start, with nothing repeated, left out or out of order.
C2_SocketIsStreamPrefix ==
  \A c \in ClientIds :
    \/ sock[c] = <<>>
    \/ Len(sock[c]) = 1 /\ sock[c][1][1] = consumers[c].start

\* C3, as claimed: no send is attempted on a client whose blocked flag is
\* set, by any callback with any force_len.
C3_NoSendWhileBlocked ==
  \A k \in LastCalls : ~(k.blocked0 /\ k.nsend > 0)

\* C3, amended: on a blocked client the idle timer, an unforced buffer
\* notification and a read-readiness event attempt no send.
C3_UnforcedCallbacksSkipBlocked ==
  (/\ last.blocked0
   /\ \/ last.op = "timeout"
      \/ last.op = "notify" /\ last.force = 0
      \/ last.op = "poll" /\ POLLOUT \notin last.events)
  => last.d.calls = <<>>

\* a blocked client with 512 bytes or more to send is notified unforced, so
\* that client_ringbuffer_poll calls client_drain_queue
C3_Witness ==
  /\ last.op = "notify"
  /\ last.force = 0
  /\ last.blocked0
  /\ last.avail0 >= SOCKET_HANDLER_PKT_SIZE
  /\ last.d.called
  /\ last.d.calls = <<>>

\* C4: a drain that returns success commits the number of bytes that were
\* written to the socket during the call.
C4_CommitEqualsWritten ==
  (last.d.called /\ last.d.rc = 0) => last.d.commit = Wrote(last.d.calls)

\* C5, as claimed: a forced drain for more than is available fails and the
\* client is closed; a forced drain within what is available, none of whose
\* sends fails or is interrupted, succeeds and commits force_len bytes.
C5_ForcedDrainCommitsForceLen ==
  (last.op = "notify" /\ last.force > 0)
  => IF last.force > last.avail0
     THEN last.d.rc # 0 /\ mem[last.c] = "freed"
     ELSE (\A k \in LastCalls : ~k.err /\ k.intr = 0)
          => last.d.rc = 0 /\ last.d.commit = last.force

\* C5, amended: a forced drain for more than is available fails; a forced
\* drain fails only then or when a send fails, and a failed one closes the
\* client and asks for the consumer's removal; a forced drain that succeeds
\* commits at least force_len bytes: all of what it sent, which ends with
\* the contiguous run in which force_len was reached.
C5_ForcedDrainCommitsWholeRuns ==
  (last.op = "notify" /\ last.force > 0)
  => /\ last.force > last.avail0 => last.d.rc # 0
     /\ last.d.rc # 0 =>
          /\ mem[last.c] = "freed"
          /\ last.ret = "RINGBUFFER_POLL_REMOVE"
          /\ last.d.commit = 0
     /\ last.d.rc # 0 =>
          \/ last.force > last.avail0
          \/ \E k \in LastCalls : k.ret < 0
     /\ last.d.rc = 0 =>
          /\ last.d.commit >= last.force
          /\ last.d.commit <= last.avail0
          /\ \/ last.d.commit = last.avail0
             \/ (last.pos0 + last.d.commit) % RingSize = 0
          /\ consumers[last.c].pos = last.pos0 + last.d.commit

\* a forced drain for one byte that commits more than one
C5_Witness ==
  /\ last.op = "notify"
  /\ last.force = 1
  /\ last.d.rc = 0
  /\ last.d.commit > last.force
  /\ last.d.commit < last.avail0

\* how often sh->clients names client c
Listed(c) == Cardinality({i \in DOMAIN clients : clients[i] = c})

\* C6: sh->clients has n_clients entries, names every open client once and
\* no closed or unused one, and n_clients is the number of open clients.
C6_ConnectionSetIsOpenClients ==
  /\ DOMAIN clients = 1..n_clients
  /\ \A c \in ClientIds : Listed(c) = IF mem[c] = "live" THEN 1 ELSE 0
  /\ \A c \in ClientIds : mem[c] = "live" => client[c].fd = "open"
  /\ n_clients = Cardinality({c \in ClientIds : mem[c] = "live"})

\* the first of two clients has been closed and the second is still open
C6_Witness ==
  /\ mem[1] = "freed"
  /\ mem[2] = "live"
  /\ clients = <<2>>
  /\ n_clients = 1

\* how often the log has event what of client c
LogCount(what, c) ==
  Cardinality({i \in DOMAIN log : log[i] = <<what, c>>})

\* C7: a client that was in sh->clients and has been closed has had its
\* event registration and its consumer cursor released exactly as often as
\* they were registered (once, never twice, never left registered), and has
\* been freed once.
C7_ReleasedExactlyOnce ==
  \A c \in ClientIds :
    (mem[c] = "freed" /\ LogCount("listed", c) = 1)
    => /\ LogCount("poller_unregister", c) = LogCount("poller_register", c)
       /\ LogCount("rbc_unregister", c) = LogCount("rbc_register", c)
       /\ LogCount("free", c) = 1

\* the bytes and the breaks the tty has received
TtyBytes == SelectSeq(tty, LAMBDA b : b # BREAK)
NBreaks == Len(tty) - Len(TtyBytes)

\* where inp has newline, '~', 'B' or newline, '~', '~'
Occ ==
  {j \in 1..(Len(inp) - 2) :
     /\ inp[j] \in {CR, LF}
     /\ inp[j + 1] = TILDE
     /\ inp[j + 2] \in {CharB, TILDE}}

\* the bytes that recognising the sequences at S takes out of the stream:
\* the leader, and the 'B' of a break
Swallowed(S) ==
  {j + 1 : j \in S} \cup {j + 2 : j \in {i \in S : inp[i + 2] = CharB}}

\* seq without the bytes at the indices in D
Strip(seq, D) ==
  LET idx == SelectSeq([i \in 1..Len(seq) |-> i], LAMBDA i : i \notin D)
  IN [k \in 1..Len(idx) |-> seq[idx[k]]]

\* the leader the parser holds back until it has seen the next byte
Pending == IF state = "escape_leader" THEN <<TILDE>> ELSE <<>>

\* C8: however the input is split into reads, what the tty has received,
\* with the leader still held back, is the input in order less the leaders
\* and 'B's of some escape sequences in it, and the breaks sent are the
\* newline, '~', 'B' among these: every byte outside an escape sequence is
\* forwarded unchanged, in order, once.
C8_OtherBytesForwarded ==
  \E S \in SUBSET Occ :
    /\ TtyBytes \o Pending = Strip(inp, Swallowed(S))
    /\ NBreaks = Cardinality({j \in S : inp[j + 2] = CharB})

\* newline, '~', x received one byte per read
C8_Witness ==
  /\ inp = <<LF, TILDE, CharX>>
  /\ reads = 3
  /\ tty = <<LF, TILDE, CharX>>

Newlines == {<<CR>>, <<LF>>, <<CR, LF>>}

\* C9: after newline, '~', '~' (newline being \r, \n or \r\n), however it is
\* split into reads, the tty has received the newline and one '~', and no
\* break.
C9_DoubledLeaderIsOneTilde ==
  \A nl \in Newlines :
    inp = nl \o <<TILDE, TILDE>> => tty = nl \o <<TILDE>>

\* \r\n~~ received one byte per read
C9_Witness ==
  /\ inp = <<CR, LF, TILDE, TILDE>>
  /\ reads = 4
  /\ tty = <<CR, LF, TILDE>>

\* C10, as claimed: after \r\n~B the tty has received one break and no
\* byte.
C10_BreakAndNoBytes ==
  inp = <<CR, LF, TILDE, CharB>> => (NBreaks = 1 /\ TtyBytes = <<>>)

\* C10, amended: after \r\n~B the tty has received the newline \r\n and
\* then one break, and nothing of '~' and 'B'.
C10_BreakAfterNewline ==
  inp = <<CR, LF, TILDE, CharB>> => tty = <<CR, LF, BREAK>>

\* \r\n~B received in one read
C10_Witness ==
  /\ inp = <<CR, LF, TILDE, CharB>>
  /\ reads = 1
  /\ tty = <<CR, LF, BREAK>>

\* s has neither \r nor \n
NoNewline(s) == \A k \in DOMAIN s : s[k] \notin {CR, LF}

\* C11: when the input is P, newline, '~', 'B', S with no newline in P and
\* S, however it is split into reads, the tty has received P and the
\* newline, then one break, then S, and nothing of '~' and 'B'.
C11_BreakBetweenPrefixAndSuffix ==
  \A i \in 0..Len(inp) : \A nl \in Newlines :
    LET P == SubSeq(inp, 1, i)
        rest == SubSeq(inp, i + 1, Len(inp))
        n == Len(nl) + 2
        S == SubSeq(rest, n + 1, Len(rest))
    IN (/\ NoNewline(P)
        /\ Len(rest) >= n
        /\ SubSeq(rest, 1, n) = nl \o <<TILDE, CharB>>
        /\ NoNewline(S))
       => tty = P \o nl \o <<BREAK>> \o S

\* x\r~Bx received in one read
C11_Witness ==
  /\ inp = <<CharX, CR, TILDE, CharB, CharX>>
  /\ reads = 1
  /\ tty = <<CharX, CR, BREAK, CharX>>

\* C12: a call of dbus_create_socket_consumer that returns an error leaves
\* the connection set as it was, and leaves the client it was creating with
\* no open descriptor, no event registration and no consumer cursor.
C12_FailedAttachLeavesNothing ==
  [][(last'.op = "attach" /\ last'.ret # "fds[1]")
     => /\ last'.ret \in {"-ENOSYS", "-errno", "-ENOMEM"}
        /\ clients' = clients
        /\ n_clients' = n_clients
        /\ \A c \in Unused :
             /\ client'[c].fd # "open"
             /\ ~pollers'[c].reg
             /\ ~consumers'[c].reg]_vars

\* a callback on client c has ended in a fatal error
Fatal(l) == l.ret \in {"POLLER_REMOVE", "RINGBUFFER_POLL_REMOVE"}

\* C13: a callback that ends in a fatal error for a client closes that
\* client and takes it out of sh->clients, and leaves every other client's
\* structure, registrations and cursor, the order of the others in
\* sh->clients, the listening descriptor and its registration as they
\* were; and a client whose consumer registration failed at accept is
\* closed, so that no client in sh->clients is without its cursor.
C13_FatalErrorClosesOnlyThatClient ==
  [][/\ Fatal(last') =>
          /\ mem'[last'.c] = "freed"
          /\ client'[last'.c].fd = "closed"
          /\ clients' = SelectSeq(clients, LAMBDA x : x # last'.c)
          /\ \A o \in ClientIds \ {last'.c} :
               /\ mem'[o] = mem[o]
               /\ client'[o] = client[o]
               /\ pollers'[o] = pollers[o]
               /\ consumers'[o] = consumers[o]
          /\ sd' = "open"
          /\ pollers'[0] = pollers[0]
      /\ \A c \in ClientIds :
           (mem'[c] = "live" /\ Listed(c)' = 1) => client'[c].rbc]_vars

\* the send_all calls of the last callback that called send()
LastSends == SelectSeq(last.d.calls, LAMBDA k : k.nsend > 0)

\* C14: an open client's registration watches write-readiness when the
\* client is blocked and read-readiness only when it is not, and after a
\* callback that sent to an open client, the client is blocked only if the
\* last send() would have blocked.
C14_BlockedMeansLastSendWouldBlock ==
  /\ \A c \in ClientIds :
       (mem[c] = "live" /\ client[c].poller) =>
         pollers[c].events = IF client[c].blocked THEN {POLLIN, POLLOUT}
                             ELSE {POLLIN}
  /\ (/\ last.op \in {"notify", "timeout", "poll"}
      /\ LastSends # <<>>
      /\ mem[last.c] = "live"
      /\ client[last.c].blocked)
     => LastSends[Len(LastSends)].again

\* what a step has appended to the log
Logged == SubSeq(log', Len(log) + 1, Len(log'))

\* C15: socket_fini returns with every client of sh->clients closed (its
\* descriptor closed, its event registration and its cursor released, its
\* structure freed), with sh->clients empty, and with the listening
\* socket's registration released and the socket closed, in that order and
\* only after the last client was closed.
C15_FiniClosesClientsThenListener ==
  [][last'.op = "fini" =>
       /\ n_clients' = 0
       /\ clients' = <<>>
       /\ \A c \in ClientIds :
            Listed(c) = 1 =>
              /\ mem'[c] = "freed"
              /\ client'[c].fd = "closed"
              /\ ~pollers'[c].reg
              /\ ~consumers'[c].reg
              /\ \E k \in DOMAIN Logged : Logged[k] = <<"close", c>>
       /\ sd' = "closed"
       /\ ~pollers'[0].reg
       /\ Len(Logged) >= 2
       /\ Logged[Len(Logged) - 1] = <<"poller_unregister", 0>>
       /\ Logged[Len(Logged)] = <<"close", 0>>
       /\ \A k \in 1..(Len(Logged) - 2) : Logged[k][2] # 0]_vars

\* socket_fini has closed two open clients and then the listening socket
C15_Witness ==
  /\ last.op = "fini"
  /\ Len(log) >= 10
  /\ SubSeq(log, Len(log) - 9, Len(log)) =
       << <<"close", 1>>, <<"poller_unregister", 1>>, <<"rbc_unregister", 1>>,
          <<"free", 1>>,
          <<"close", 2>>, <<"poller_unregister", 2>>, <<"rbc_unregister", 2>>,
          <<"free", 2>>,
          <<"poller_unregister", 0>>, <<"close", 0>> >>

\* the places of a step's log entries that release the cursor of client c
Unregs(c) == {k \in DOMAIN Logged : Logged[k] = <<"rbc_unregister", c>>}

\* C16: client_ringbuffer_poll never releases the cursor it is called for.
\* When client_drain_queue fails it closes the client without releasing the
\* cursor and returns RINGBUFFER_POLL_REMOVE, and the cursor is released
\* once, by the ring buffer, after the client has been closed and freed;
\* when it does not fail, nothing is closed and the cursor stays registered.
C16_CursorReleasedAfterCallback ==
  [][last'.op = "notify" =>
       LET c == last'.c
           n == Len(Logged)
       IN /\ (last'.ret = "RINGBUFFER_POLL_REMOVE")
               <=> (last'.d.called /\ last'.d.rc # 0)
          /\ last'.ret = "RINGBUFFER_POLL_REMOVE" =>
               /\ n >= 3
               /\ Logged[1] = <<"close", c>>
               /\ Logged[n - 1] = <<"free", c>>
               /\ Unregs(c) = {n}
               /\ ~client'[c].rbc
               /\ ~consumers'[c].reg
          /\ last'.ret # "RINGBUFFER_POLL_REMOVE" =>
               /\ Logged = <<>>
               /\ consumers'[c].reg
               /\ client'[c].rbc]_vars

\* a notification whose drain failed has closed the client, and the ring
\* buffer has then released the cursor
C16_Witness ==
  /\ last.op = "notify"
  /\ last.ret = "RINGBUFFER_POLL_REMOVE"
  /\ last.d.rc # 0
  /\ Len(log) >= 2
  /\ log[Len(log) - 1] = <<"free", last.c>>
  /\ log[Len(log)] = <<"rbc_unregister", last.c>>
  /\ mem[last.c] = "freed"

\* C17: client_ringbuffer_poll with force_len = 0 and fewer than 512 bytes
\* at the client's cursor sets the client's timeout, returns
\* RINGBUFFER_POLL_OK and changes nothing else: no byte is sent, the cursor
\* does not move, blocked and the event mask stay. With force_len > 0, or
\* with 512 bytes or more, it calls client_drain_queue.
C17_SmallUnforcedNotifyDefers ==
  [][last'.op = "notify" =>
       LET c == last'.c
       IN IF last'.force = 0
             /\ ringbuffer_len(rb_head, consumers[c]) < 512
          THEN /\ pollers'[c] = [pollers[c] EXCEPT !.timeout = TRUE]
               /\ last'.ret = "RINGBUFFER_POLL_OK"
               /\ ~last'.d.called
               /\ sock' = sock
               /\ consumers' = consumers
               /\ client' = client
               /\ mem' = mem
               /\ clients' = clients
               /\ log' = log
          ELSE last'.d.called]_vars

\* an unforced notification with 2 bytes available has set the timeout of a
\* client that had none
C17_Witness ==
  /\ last.op = "notify"
  /\ last.force = 0
  /\ last.avail0 = 2
  /\ ~last.d.called
  /\ pollers[last.c].timeout
  /\ sock[last.c] = <<>>
  /\ consumers[last.c].pos = last.pos0

\* the read before the last, the last read, and the read of this step
Earlier == rx[Len(rx) - 1]
Prev == rx[Len(rx)]
Cur == rx'[Len(rx')]
EndsWith(s, t) == Len(s) >= Len(t) /\ SubSeq(s, Len(s) - Len(t) + 1, Len(s)) = t

\* C18: the parser state is shared by the clients of a console. When one
\* client's read ends with a newline and the next read, from another
\* client, starts with '~' 'B', the tty is sent a break. When one client's
\* read ends with a newline and '~', another client's read without a
\* newline comes next, and the first client then sends 'B', the 'B' is
\* forwarded as a byte and no break is sent.
C18_ParserStateIsShared ==
  [][(last'.op = "poll" /\ Len(rx') = Len(rx) + 1) =>
       /\ (/\ Len(rx) >= 1
           /\ Prev.c # Cur.c
           /\ \E nl \in Newlines : EndsWith(Prev.buf, nl)
           /\ Len(Cur.buf) >= 2
           /\ SubSeq(Cur.buf, 1, 2) = <<TILDE, CharB>>)
          => /\ Len(tty') > Len(tty)
             /\ SubSeq(tty', 1, Len(tty) + 1) = tty \o <<BREAK>>
       /\ (/\ Len(rx) >= 2
           /\ Earlier.c = Cur.c
           /\ Prev.c # Cur.c
           /\ \E nl \in Newlines : EndsWith(Earlier.buf, nl \o <<TILDE>>)
           /\ NoNewline(Prev.buf)
           /\ Cur.buf = <<CharB>>)
          => tty' = tty \o <<CharB>>]_vars

\* client 1 has sent a newline and client 2 has then sent '~' 'B': one break
C18_Witness ==
  /\ rx = << [c |-> 1, buf |-> <<LF>>], [c |-> 2, buf |-> <<TILDE, CharB>>] >>
  /\ tty = <<LF, BREAK>>

\* client 2's byte has come between client 1's newline, '~' and its 'B'
C18_WitnessInterleaved ==
  /\ rx = << [c |-> 1, buf |-> <<LF, TILDE>>], [c |-> 2, buf |-> <<CharX>>],
             [c |-> 1, buf |-> <<CharB>>] >>
  /\ tty = <<LF, TILDE, CharX, CharB>>

ParserStates == {"escape_idle", "escape_cr", "escape_lf", "escape_leader"}

\* one call of process_buffer_range on buf[begin..] in state st returns a
\* position from begin to the end, leaves the parser idle when it returns
\* begin, and returns more than begin when the parser was idle
CallAdvances(st, buf, begin) ==
  LET r == process_buffer_range(st, buf, begin, <<>>)
  IN /\ begin <= r.cursor
     /\ r.cursor <= Len(buf) + 1
     /\ r.cursor = begin => r.state = "escape_idle"
     /\ st = "escape_idle" => r.cursor > begin

\* the calls the feed loop makes on buf from begin in state st, counted in
\* n, given up after max calls
RECURSIVE FeedCalls(_, _, _, _, _, _)
FeedCalls(st, buf, begin, sink, n, max) ==
  IF begin < Len(buf) + 1 /\ n < max
  THEN LET r == process_buffer_range(st, buf, begin, sink)
       IN FeedCalls(r.state, buf, r.cursor, r.sink, n + 1, max)
  ELSE [state |-> st, cursor |-> begin, sink |-> sink, calls |-> n]

\* C19: for the bytes of every read, process_buffer_range in any parser
\* state and at any position returns a position from begin to the end,
\* leaves the parser idle when it consumes nothing and consumes a byte when
\* the parser is idle; the feed loop of client_poll started in the
\* console's parser state ends at the end of the bytes after at most two
\* calls for each byte, and leaves the state and the tty output that
\* client_poll leaves.
C19_FeedLoopConsumesTheRun ==
  [][(last'.op = "poll" /\ Len(rx') = Len(rx) + 1) =>
       LET buf == Cur.buf
           f == FeedCalls(state, buf, 1, tty, 0, 2 * Len(buf) + 1)
       IN /\ \A st \in ParserStates, begin \in 1..Len(buf) :
               CallAdvances(st, buf, begin)
          /\ f.cursor = Len(buf) + 1
          /\ f.calls <= 2 * Len(buf)
          /\ state' = f.state
          /\ tty' = f.sink]_vars

\* a read of one ordinary byte after a newline has taken two calls: one that
\* left the escape_lf state without consuming, one that forwarded the byte
C19_Witness ==
  /\ rx = << [c |-> 1, buf |-> <<LF>>], [c |-> 1, buf |-> <<CharX>>] >>
  /\ state = "escape_idle"
  /\ tty = <<LF, CharX>>
  /\ FeedCalls("escape_lf", <<CharX>>, 1, <<>>, 0, 3).calls = 2

\* offset i of the stream has been written to client c's socket
Sent(c, i) == \E k \in DOMAIN sock[c] : sock[c][k][1] <= i /\ i < sock[c][k][2]

\* client c is open and a byte queued since its cursor was registered has
\* not been written to its socket
Unsent(c) ==
  /\ mem[c] = "live"
  /\ consumers[c].reg
  /\ \E i \in consumers[c].start..(rb_head - 1) : ~Sent(c, i)

\* C20: while a client is open, a byte queued for it and not yet written to
\* its socket is always covered by the client's armed timeout or by its
\* registration watching POLLOUT, and is eventually written unless the
\* client is closed.
C20_QueuedBytesAreSent ==
  /\ [](\A c \in ClientIds :
          Unsent(c) => (pollers[c].timeout \/ POLLOUT \in pollers[c].events))
  /\ \A c \in ClientIds : Unsent(c) ~> ~Unsent(c)

\* the timeout has flushed two bytes that a notification had deferred
C20_Witness ==
  /\ last.op = "timeout"
  /\ last.avail0 = 2
  /\ last.d.commit = 2
  /\ sock[1] = << <<0, 2>> >>
  /\ ~Unsent(1)

\* a write-readiness event has flushed the bytes a would-block had left
C20_WitnessWritable ==
  /\ last.op = "poll"
  /\ last.blocked0
  /\ last.d.commit > 0
  /\ ~client[1].blocked
  /\ ~Unsent(1)

====
